---- MODULE Spec2Model ----
(***************************************************************************)
(* Model of sceptre_cdk_handler/cdk_builder.py: the three CDK builders     *)
(* (BootstrappedCdkBuilder, BootstraplessCdkBuilder, NonPythonCdkBuilder), *)
(* their build_template pipeline (synthesize, publish-if-needed, extract), *)
(* the credential environment handed to subprocesses and the scoped        *)
(* temporary output directory of the out-of-process builder.               *)
(***************************************************************************)
EXTENDS Naturals, Sequences, FiniteSets, TLC

VARIABLES
    kind,                   \* the builder's class
    synthesizer_config,     \* what synthesizer_class(**config) does with the config
    environment_variables,  \* self._environment_variables (the ambient mapping)
    region,                 \* self._connection_manager.region
    session,                \* what the connection manager's session yields now
    rotations,              \* how often the session's credentials changed
    builds,                 \* build_template calls started on this builder
    pc,                     \* position inside build_template
    stack_logical_id,       \* the stack identifier of the running call
    cdk_context,            \* the context items of the running call
    output_dir,             \* the TemporaryDirectory of the running call
    disk,                   \* existing temporary directories and their files
    assembly,               \* the CloudAssembly app.synth() returned
    classification,         \* what _only_asset_is_template answered
    calls,                  \* the subprocess_run invocations of the running call
    steps,                  \* the operations the running call started, in order
    result,                 \* the template build_template returned
    error                   \* the exception build_template raised

vars == <<kind, synthesizer_config, environment_variables, region, session,
          rotations, builds, pc, stack_logical_id, cdk_context, output_dir,
          disk, assembly, classification, calls, steps, result, error>>

(***************************************************************************)
(* Bounds of the model.                                                    *)
(***************************************************************************)
MaxBuilds == 2
MaxRotations == 1
MaxFiles == 2

(***************************************************************************)
(* Values.                                                                 *)
(***************************************************************************)
None == "None"

STACK_LOGICAL_ID == "CDKStack"

StackIds == {"CDKStack", "MyStack"}

ReturnCodes == {0, 1}

EmptyDict == [k \in {} |-> None]

\* dict.pop(key, None)
DictPop(d, key) == [k \in (DOMAIN d) \ {key} |-> d[k]]

\* dict.update(**u): the keys of u are set, the others kept
DictUpdate(d, u) == [k \in (DOMAIN d) \cup (DOMAIN u) |-> IF k \in DOMAIN u THEN u[k] ELSE d[k]]

\* dict.get(key, default)
DictGet(d, key, default) == IF key \in DOMAIN d THEN d[key] ELSE default

\* f'{stack_logical_id}.template.json'
TemplateFileName(id) == id \o ".template.json"

\* f'{stack_logical_id}.assets.json'
AssetsFileName(id) == id \o ".assets.json"

\* str(Path(output_dir, name))
PathOf(dir, name) == dir \o "/" \o name

(***************************************************************************)
(* The session: the credentials the connection manager yields, or none.    *)
(***************************************************************************)
CredentialsSet ==
    { [access_key |-> "AKIA-static", secret_key |-> "secret-static", token |-> None],
      [access_key |-> "ASIA-role", secret_key |-> "secret-role", token |-> "token-role"] }

NoCredentials == [access_key |-> None, secret_key |-> None, token |-> None]

Sessions ==
    { [resolves |-> TRUE, credentials |-> c] : c \in CredentialsSet }
        \cup { [resolves |-> FALSE, credentials |-> NoCredentials] }

Regions == {"eu-west-1", "us-east-1"}

(***************************************************************************)
(* The ambient environment: PATH, and any of a profile, a session token    *)
(* and a set of credential and region variables left by the caller.        *)
(***************************************************************************)
AmbientValues ==
    [ PATH |-> "/usr/bin",
      AWS_PROFILE |-> "dev",
      AWS_SESSION_TOKEN |-> "token-ambient",
      AWS_ACCESS_KEY_ID |-> "AKIA-ambient",
      AWS_SECRET_ACCESS_KEY |-> "secret-ambient",
      AWS_DEFAULT_REGION |-> "ap-south-1",
      CDK_DEFAULT_REGION |-> "ap-south-1",
      AWS_REGION |-> "ap-south-1" ]

AmbientGroups ==
    { {"AWS_PROFILE"},
      {"AWS_SESSION_TOKEN"},
      {"AWS_ACCESS_KEY_ID", "AWS_SECRET_ACCESS_KEY", "AWS_DEFAULT_REGION",
       "CDK_DEFAULT_REGION", "AWS_REGION"} }

AmbientEnvs ==
    { [k \in {"PATH"} \cup UNION G |-> AmbientValues[k]] : G \in SUBSET AmbientGroups }

(***************************************************************************)
(* _get_envs.  The value is what the call returns (envs) together with the *)
(* mapping the builder holds afterwards: the code works on a copy, so the  *)
(* builder's mapping is the one it held before.                            *)
(***************************************************************************)
GetEnvs_KeepsAmbientToken(env, credentials, reg) ==
    LET envs0 == DictPop(env, "AWS_PROFILE")
        envs1 == DictUpdate(envs0,
                    [ AWS_ACCESS_KEY_ID |-> credentials.access_key,
                      AWS_SECRET_ACCESS_KEY |-> credentials.secret_key,
                      AWS_DEFAULT_REGION |-> reg,
                      CDK_DEFAULT_REGION |-> reg,
                      AWS_REGION |-> reg ])
        envs2 == IF credentials.token = None
                 THEN envs1
                 ELSE DictUpdate(envs1, [AWS_SESSION_TOKEN |-> credentials.token])
    IN  [envs |-> envs2, environment_variables |-> env]

GetEnvs_TokenSetDefault(env, credentials, reg) ==
    LET envs0 == DictPop(env, "AWS_PROFILE")
        envs1 == DictUpdate(envs0,
                    [ AWS_ACCESS_KEY_ID |-> credentials.access_key,
                      AWS_SECRET_ACCESS_KEY |-> credentials.secret_key,
                      AWS_DEFAULT_REGION |-> reg,
                      CDK_DEFAULT_REGION |-> reg,
                      AWS_REGION |-> reg ])
        envs2 == IF credentials.token = None
                 THEN DictPop(envs1, "AWS_SESSION_TOKEN")
                 ELSE IF "AWS_SESSION_TOKEN" \in DOMAIN envs1
                      THEN envs1
                      ELSE DictUpdate(envs1, [AWS_SESSION_TOKEN |-> credentials.token])
    IN  [envs |-> envs2, environment_variables |-> env]

Bootstrapped_get_envs(env, credentials, reg) ==
    LET envs0 == DictPop(env, "AWS_PROFILE")
        envs1 == DictUpdate(envs0,
                    [ AWS_ACCESS_KEY_ID |-> credentials.access_key,
                      AWS_SECRET_ACCESS_KEY |-> credentials.secret_key,
                      AWS_DEFAULT_REGION |-> reg,
                      CDK_DEFAULT_REGION |-> reg,
                      AWS_REGION |-> reg ])
        envs2 == IF credentials.token = None
                 THEN DictPop(envs1, "AWS_SESSION_TOKEN")
                 ELSE DictUpdate(envs1, [AWS_SESSION_TOKEN |-> credentials.token])
    IN  [envs |-> envs2, environment_variables |-> env]

NonPython_get_envs(env, credentials, reg) ==
    LET envs0 == DictPop(env, "AWS_PROFILE")
        envs1 == DictUpdate(envs0,
                    [ AWS_ACCESS_KEY_ID |-> credentials.access_key,
                      AWS_SECRET_ACCESS_KEY |-> credentials.secret_key,
                      AWS_DEFAULT_REGION |-> reg,
                      CDK_DEFAULT_REGION |-> reg,
                      AWS_REGION |-> reg ])
        envs2 == IF credentials.token = None
                 THEN DictPop(envs1, "AWS_SESSION_TOKEN")
                 ELSE DictUpdate(envs1, [AWS_SESSION_TOKEN |-> credentials.token])
    IN  [envs |-> envs2, environment_variables |-> env]

(***************************************************************************)
(* Asset manifests.  A dict is the sequence of its keys in insertion       *)
(* order (the code reads no value of an asset); list(d.keys()) is that     *)
(* sequence.                                                               *)
(***************************************************************************)
FileKeys(id) == {TemplateFileName(id), "asset123.zip", "Legacy.template.json"}

RECURSIVE KeySeqs(_, _)
KeySeqs(S, n) ==
    IF n = 0
    THEN {<<>>}
    ELSE LET shorter == KeySeqs(S, n - 1)
         IN  shorter \cup
             { Append(s, k) : s \in {t \in shorter : Len(t) = n - 1},
                              k \in S }

DistinctKeys(s) == \A i, j \in 1..Len(s) : i # j => s[i] # s[j]

FileDicts(id) == { s \in KeySeqs(FileKeys(id), MaxFiles) : DistinctKeys(s) }

ImageDicts == { <<>>, <<"image456">> }

(***************************************************************************)
(* In-process builders: the CloudAssembly and its artifacts.               *)
(***************************************************************************)
ManifestContents == [files : FileDicts(STACK_LOGICAL_ID), docker_images : ImageDicts]

NoContents == [files |-> <<>>, docker_images |-> <<>>]

NoArtifact == [type |-> "None", file |-> None, contents |-> NoContents]

StackArtifact ==
    [ type |-> "CloudFormationStackArtifact",
      file |-> PathOf("cdk.out", TemplateFileName(STACK_LOGICAL_ID)),
      contents |-> NoContents ]

AssetManifestArtifact(m) ==
    [ type |-> "AssetManifestArtifact",
      file |-> PathOf("cdk.out", AssetsFileName(STACK_LOGICAL_ID)),
      contents |-> m ]

SynthesizedTemplate(id) == "{Resources of " \o id \o "}"

NoAssembly == [artifacts |-> <<>>, template |-> None]

\* What app.synth() can return: the stack's artifact with no asset manifest
\* (a synthesizer that writes none), or with one, before or after it.
Assemblies ==
    { [artifacts |-> <<StackArtifact>>, template |-> SynthesizedTemplate(STACK_LOGICAL_ID)] }
    \cup { [artifacts |-> <<AssetManifestArtifact(m), StackArtifact>>,
            template |-> SynthesizedTemplate(STACK_LOGICAL_ID)] : m \in ManifestContents }
    \cup { [artifacts |-> <<StackArtifact, AssetManifestArtifact(m)>>,
            template |-> SynthesizedTemplate(STACK_LOGICAL_ID)] :
                m \in {c \in ManifestContents : Len(c.files) <= 1} }

\* the first artifact, whatever its type
GetAssetsManifest_FirstArtifact(artifacts) ==
    IF Len(artifacts) = 0 THEN NoArtifact ELSE Head(artifacts)

RECURSIVE Bootstrapped_get_assets_manifest(_)
Bootstrapped_get_assets_manifest(artifacts) ==
    IF Len(artifacts) = 0
    THEN NoArtifact
    ELSE IF Head(artifacts).type = "AssetManifestArtifact"
         THEN Head(artifacts)
         ELSE Bootstrapped_get_assets_manifest(Tail(artifacts))

Bootstrapped_only_asset_is_template(asset_artifacts) ==
    LET manifest_contents == asset_artifacts.contents
        keys == manifest_contents.files
        expected_template == TemplateFileName(STACK_LOGICAL_ID)
    IN  IF Len(manifest_contents.docker_images) > 0
        THEN FALSE
        ELSE keys = <<expected_template>>

Bootstrapped_get_template(cloud_assembly) == cloud_assembly.template

\* subprocess_run(..., check=True): a non-zero exit raises CalledProcessError
RunCommand_NoCheck(returncode) == None

Bootstrapped_run_command(returncode) ==
    IF returncode # 0 THEN "CalledProcessError" ELSE None

PublishCommand_AssemblyDirectory(asset_artifacts) ==
    "npx cdk-assets -v publish --path " \o "cdk.out"

Bootstrapped_publish_command(asset_artifacts) ==
    "npx cdk-assets -v publish --path " \o asset_artifacts.file

(***************************************************************************)
(* Out-of-process builder: the files of the output directory.              *)
(***************************************************************************)
AssetsDicts(id) ==
    { [k \in {"files", "dockerImages"} |-> IF k = "files" THEN f ELSE i] :
          f \in FileDicts(id), i \in ImageDicts }
    \cup { [k \in {"files"} |-> f] : f \in {g \in FileDicts(id) : Len(g) <= 1} }
    \cup { [k \in {"dockerImages"} |-> i] : i \in ImageDicts }

File(doc) == [wellformed |-> TRUE, doc |-> doc]

MalformedAssets == [wellformed |-> FALSE, doc |-> EmptyDict]

MalformedTemplate == [wellformed |-> FALSE, doc |-> ""]

AssetsFiles(id) == { File(d) : d \in AssetsDicts(id) } \cup {MalformedAssets}

TemplateFiles(id) == { File(SynthesizedTemplate(id)), MalformedTemplate }

EmptyDir == [n \in {} |-> MalformedTemplate]

\* What a successful 'cdk synth' can leave in the output directory: the
\* template, the assets manifest, both or neither, each well-formed or not.
SynthOutputs(id) ==
    { [n \in {AssetsFileName(id), TemplateFileName(id)} |->
            IF n = AssetsFileName(id) THEN a ELSE t] :
          a \in AssetsFiles(id), t \in TemplateFiles(id) }
    \cup { [n \in {AssetsFileName(id)} |-> a] : a \in {File(d) : d \in
            {x \in AssetsDicts(id) : DOMAIN x = {"files", "dockerImages"} /\ Len(x.files) <= 1}} }
    \cup { [n \in {TemplateFileName(id)} |-> t] : t \in TemplateFiles(id) }

Contexts == { <<>>, << <<"stage", "prod">> >> }

RECURSIVE ContextArguments(_)
ContextArguments(items) ==
    IF Len(items) = 0
    THEN ""
    ELSE Head(items)[1] \o "=" \o Head(items)[2] \o " " \o ContextArguments(Tail(items))

NonPython_create_command(dir, context, id) ==
    "npx cdk synth " \o id \o " -o " \o dir \o " " \o ContextArguments(context)

NonPython_publish_command(assets_filepath) ==
    "npx cdk-assets -v publish --path " \o assets_filepath

NonPython_synthesize_run(returncode) ==
    IF returncode # 0 THEN "CalledProcessError" ELSE None

NonPython_publish_run(returncode) ==
    IF returncode # 0 THEN "CalledProcessError" ELSE None

\* assets_filepath.exists(), then json.load: the error raised, or None
NonPython_get_assets_manifest_error(dir, name) ==
    IF name \notin DOMAIN dir
    THEN "SceptreException"
    ELSE IF ~dir[name].wellformed THEN "JSONDecodeError" ELSE None

NonPython_get_assets_manifest(dir, name) == dir[name].doc

OnlyAsset_Contains(assets_dict, id) ==
    LET keys == DictGet(assets_dict, "files", <<>>)
        expected_template == TemplateFileName(id)
    IN  IF Len(DictGet(assets_dict, "dockerImages", <<>>)) > 0
        THEN FALSE
        ELSE \E i \in 1..Len(keys) : keys[i] = expected_template

NonPython_only_asset_is_template(assets_dict, id) ==
    LET keys == DictGet(assets_dict, "files", <<>>)
        expected_template == TemplateFileName(id)
    IN  IF Len(DictGet(assets_dict, "dockerImages", <<>>)) > 0
        THEN FALSE
        ELSE keys = <<expected_template>>

\* template_path.open(), then json.load: the error raised, or None
NonPython_get_template_error(dir, name) ==
    IF name \notin DOMAIN dir
    THEN "FileNotFoundError"
    ELSE IF ~dir[name].wellformed THEN "JSONDecodeError" ELSE None

NonPython_get_template(dir, name) == dir[name].doc

\* TemporaryDirectory(): a directory of a fresh name
TemporaryDirectory(n) == "/tmp/tmp" \o ToString(n)

\* Leaving the with block, normally or by an exception: the directory and
\* all it holds are removed.
WithExit_OnlyOnReturn(d, dir, exception) ==
    IF exception = None THEN [x \in (DOMAIN d) \ {dir} |-> d[x]] ELSE d

TemporaryDirectoryExit(d, dir, exception) == [x \in (DOMAIN d) \ {dir} |-> d[x]]

(***************************************************************************)
(* build_template: the order of its steps, and what a call records.        *)
(***************************************************************************)
BuildTemplate_ExtractsFirst == <<"synthesize", "get_template", "publish">>

Bootstrapped_build_template_order == <<"synthesize", "publish", "get_template">>

NonPython_build_template_order == <<"synthesize", "publish", "get_template">>

InProcess == {"Bootstrapped", "Bootstrapless"}

Order == IF kind \in InProcess
         THEN Bootstrapped_build_template_order
         ELSE NonPython_build_template_order

\* the statement after step p of build_template; "returned" after the last
After(p) ==
    LET i == CHOOSE j \in 1..Len(Order) : Order[j] = p
    IN  IF i < Len(Order) THEN Order[i + 1] ELSE "returned"

Step(phase, op) == [phase |-> phase, op |-> op]

Call(command, env, returncode) ==
    [command |-> command, env |-> env, returncode |-> returncode, session |-> session]

EmptyDisk == [d \in {} |-> EmptyDir]

Init ==
    /\ kind \in {"Bootstrapped", "Bootstrapless", "NonPython"}
    /\ synthesizer_config \in
          IF kind = "Bootstrapless" THEN {"valid", "TypeError", "ValueError"} ELSE {"unused"}
    /\ environment_variables \in AmbientEnvs
    /\ region \in Regions
    /\ session \in Sessions
    /\ rotations = 0
    /\ builds = 0
    /\ pc = "idle"
    /\ stack_logical_id = None
    /\ cdk_context = <<>>
    /\ output_dir = None
    /\ disk = EmptyDisk
    /\ assembly = NoAssembly
    /\ classification = "unclassified"
    /\ calls = <<>>
    /\ steps = <<>>
    /\ result = None
    /\ error = None

\* The session's credentials change (a refresh, a re-assumed role, a session
\* that stops resolving): the connection manager is outside the builder.
RotateCredentials ==
    /\ rotations < MaxRotations
    /\ rotations' = rotations + 1
    /\ \E s \in Sessions \ {session} : session' = s
    /\ UNCHANGED <<kind, synthesizer_config, environment_variables, region, builds, pc,
                   stack_logical_id, cdk_context, output_dir, disk, assembly,
                   classification, calls, steps, result, error>>

(***************************************************************************)
(* BootstrappedCdkBuilder and BootstraplessCdkBuilder.                     *)
(***************************************************************************)
Bootstrapped_build_template ==
    /\ kind \in InProcess
    /\ pc \in {"idle", "returned", "raised"}
    /\ builds < MaxBuilds
    /\ builds' = builds + 1
    /\ pc' = Head(Order)
    /\ stack_logical_id' = STACK_LOGICAL_ID
    /\ cdk_context' = <<>>
    /\ assembly' = NoAssembly
    /\ classification' = "unclassified"
    /\ calls' = <<>>
    /\ steps' = <<>>
    /\ result' = None
    /\ error' = None
    /\ UNCHANGED <<kind, synthesizer_config, environment_variables, region, session,
                   rotations, output_dir, disk>>

Bootstrapped_synthesize ==
    /\ kind = "Bootstrapped"
    /\ pc = "synthesize"
    /\ \/ \* stack_class(...) and app.synth() return
          /\ \E a \in Assemblies : assembly' = a
          /\ steps' = steps \o <<Step("synthesize", "app_class"),
                                 Step("synthesize", "stack_class"),
                                 Step("synthesize", "app.synth")>>
          /\ pc' = After("synthesize")
          /\ error' = None
       \/ \* the stack's own code, or synthesis, raises
          /\ assembly' = NoAssembly
          /\ steps' = steps \o <<Step("synthesize", "app_class"),
                                 Step("synthesize", "stack_class")>>
          /\ pc' = "raised"
          /\ error' = "SynthesisError"
    /\ UNCHANGED <<kind, synthesizer_config, environment_variables, region, session,
                   rotations, builds, stack_logical_id, cdk_context, output_dir, disk,
                   classification, calls, result>>

\* except TypeError: the error build_template raises when the synthesizer's
\* constructor raised exception e
Synthesizer_CatchesNothing(e) == e

Bootstrapless_synthesizer_error(e) ==
    IF e = "TypeError" THEN "TemplateHandlerArgumentsInvalidError" ELSE e

Bootstrapless_synthesize ==
    /\ kind = "Bootstrapless"
    /\ pc = "synthesize"
    /\ \/ /\ synthesizer_config = "valid"
          /\ \E a \in Assemblies : assembly' = a
          /\ steps' = steps \o <<Step("synthesize", "app_class"),
                                 Step("synthesize", "synthesizer_class"),
                                 Step("synthesize", "stack_class"),
                                 Step("synthesize", "app.synth")>>
          /\ pc' = After("synthesize")
          /\ error' = None
       \/ /\ synthesizer_config = "valid"
          /\ assembly' = NoAssembly
          /\ steps' = steps \o <<Step("synthesize", "app_class"),
                                 Step("synthesize", "synthesizer_class"),
                                 Step("synthesize", "stack_class")>>
          /\ pc' = "raised"
          /\ error' = "SynthesisError"
       \/ \* synthesizer_class(**config) raises
          /\ synthesizer_config # "valid"
          /\ assembly' = NoAssembly
          /\ steps' = steps \o <<Step("synthesize", "app_class"),
                                 Step("synthesize", "synthesizer_class")>>
          /\ pc' = "raised"
          /\ error' = Bootstrapless_synthesizer_error(synthesizer_config)
    /\ UNCHANGED <<kind, synthesizer_config, environment_variables, region, session,
                   rotations, builds, stack_logical_id, cdk_context, output_dir, disk,
                   classification, calls, result>>

Bootstrapped_publish ==
    /\ kind \in InProcess
    /\ pc = "publish"
    /\ LET asset_artifacts == Bootstrapped_get_assets_manifest(assembly.artifacts)
           only == Bootstrapped_only_asset_is_template(asset_artifacts)
           got == Bootstrapped_get_envs(environment_variables, session.credentials, region)
           inspect == <<Step("publish", "_get_assets_manifest"),
                        Step("publish", "_only_asset_is_template")>>
       IN  \/ /\ asset_artifacts = NoArtifact
              /\ steps' = Append(steps, Step("publish", "_get_assets_manifest"))
              /\ pc' = "raised"
              /\ error' = "SceptreException"
              /\ UNCHANGED <<classification, calls, environment_variables>>
           \/ /\ asset_artifacts # NoArtifact
              /\ only
              /\ steps' = steps \o inspect
              /\ classification' = "only_template"
              /\ pc' = After("publish")
              /\ UNCHANGED <<error, calls, environment_variables>>
           \/ /\ asset_artifacts # NoArtifact
              /\ ~only
              /\ ~session.resolves
              /\ steps' = steps \o inspect \o <<Step("publish", "_get_envs")>>
              /\ classification' = "has_assets"
              /\ pc' = "raised"
              /\ error' = "CredentialsError"
              /\ UNCHANGED <<calls, environment_variables>>
           \/ /\ asset_artifacts # NoArtifact
              /\ ~only
              /\ session.resolves
              /\ steps' = steps \o inspect \o <<Step("publish", "_get_envs"),
                                                Step("publish", "subprocess_run")>>
              /\ classification' = "has_assets"
              /\ environment_variables' = got.environment_variables
              /\ \E returncode \in ReturnCodes :
                    /\ calls' = Append(calls,
                          Call(Bootstrapped_publish_command(asset_artifacts),
                               got.envs, returncode))
                    /\ error' = Bootstrapped_run_command(returncode)
                    /\ pc' = IF Bootstrapped_run_command(returncode) # None
                             THEN "raised" ELSE After("publish")
    /\ UNCHANGED <<kind, synthesizer_config, region, session, rotations, builds,
                   stack_logical_id, cdk_context, output_dir, disk, assembly, result>>

Bootstrapped_get_template_step ==
    /\ kind \in InProcess
    /\ pc = "get_template"
    /\ steps' = Append(steps, Step("get_template", "_get_template"))
    /\ pc' = After("get_template")
    /\ result' = IF After("get_template") = "returned"
                 THEN Bootstrapped_get_template(assembly) ELSE None
    /\ UNCHANGED <<kind, synthesizer_config, environment_variables, region, session,
                   rotations, builds, stack_logical_id, cdk_context, output_dir, disk,
                   assembly, classification, calls, error>>

(***************************************************************************)
(* NonPythonCdkBuilder.                                                    *)
(***************************************************************************)
NonPython_build_template ==
    /\ kind = "NonPython"
    /\ pc \in {"idle", "returned", "raised"}
    /\ builds < MaxBuilds
    /\ builds' = builds + 1
    /\ \E id \in StackIds : stack_logical_id' = id
    /\ \E context \in Contexts : cdk_context' = context
    /\ output_dir' = TemporaryDirectory(builds + 1)
    /\ disk' = [d \in (DOMAIN disk) \cup {output_dir'} |->
                    IF d = output_dir' THEN EmptyDir ELSE disk[d]]
    /\ pc' = Head(Order)
    /\ classification' = "unclassified"
    /\ calls' = <<>>
    /\ steps' = <<>>
    /\ result' = None
    /\ error' = None
    /\ UNCHANGED <<kind, synthesizer_config, environment_variables, region, session,
                   rotations, assembly>>

NonPython_synthesize ==
    /\ kind = "NonPython"
    /\ pc = "synthesize"
    /\ LET got == NonPython_get_envs(environment_variables, session.credentials, region)
           command == NonPython_create_command(output_dir, cdk_context, stack_logical_id)
       IN  \/ /\ ~session.resolves
              /\ steps' = Append(steps, Step("synthesize", "_get_envs"))
              /\ pc' = "raised"
              /\ error' = "CredentialsError"
              /\ disk' = TemporaryDirectoryExit(disk, output_dir, "CredentialsError")
              /\ UNCHANGED <<calls, environment_variables>>
           \/ /\ session.resolves
              /\ steps' = steps \o <<Step("synthesize", "_get_envs"),
                                     Step("synthesize", "_create_command"),
                                     Step("synthesize", "subprocess_run")>>
              /\ environment_variables' = got.environment_variables
              /\ \E returncode \in ReturnCodes :
                    /\ calls' = Append(calls, Call(command, got.envs, returncode))
                    /\ error' = NonPython_synthesize_run(returncode)
                    /\ IF NonPython_synthesize_run(returncode) # None
                       THEN /\ pc' = "raised"
                            /\ disk' = TemporaryDirectoryExit(disk, output_dir,
                                            NonPython_synthesize_run(returncode))
                       ELSE /\ pc' = After("synthesize")
                            /\ \E out \in SynthOutputs(stack_logical_id) :
                                  disk' = [disk EXCEPT ![output_dir] = out]
    /\ UNCHANGED <<kind, synthesizer_config, region, session, rotations, builds,
                   stack_logical_id, cdk_context, output_dir, assembly, classification,
                   result>>

\* environment_variables = self._get_envs() in _publish
PublishEnvs_FromSynthesis ==
    IF Len(calls) > 0
    THEN [envs |-> calls[1].env, environment_variables |-> environment_variables]
    ELSE NonPython_get_envs(environment_variables, session.credentials, region)

NonPython_publish_envs ==
    NonPython_get_envs(environment_variables, session.credentials, region)

NonPython_publish ==
    /\ kind = "NonPython"
    /\ pc = "publish"
    /\ LET dir == disk[output_dir]
           assets_file == AssetsFileName(stack_logical_id)
           assets_filepath == PathOf(output_dir, assets_file)
           missing == NonPython_get_assets_manifest_error(dir, assets_file)
           assets_manifest == NonPython_get_assets_manifest(dir, assets_file)
           only == NonPython_only_asset_is_template(assets_manifest, stack_logical_id)
           got == NonPython_publish_envs
           inspect == <<Step("publish", "_get_assets_manifest"),
                        Step("publish", "_only_asset_is_template")>>
       IN  \/ /\ missing # None
              /\ steps' = Append(steps, Step("publish", "_get_assets_manifest"))
              /\ pc' = "raised"
              /\ error' = missing
              /\ disk' = TemporaryDirectoryExit(disk, output_dir, missing)
              /\ UNCHANGED <<classification, calls, environment_variables>>
           \/ /\ missing = None
              /\ only
              /\ steps' = steps \o inspect
              /\ classification' = "only_template"
              /\ pc' = After("publish")
              /\ UNCHANGED <<error, calls, environment_variables, disk>>
           \/ /\ missing = None
              /\ ~only
              /\ ~session.resolves
              /\ steps' = steps \o inspect \o <<Step("publish", "_get_envs")>>
              /\ classification' = "has_assets"
              /\ pc' = "raised"
              /\ error' = "CredentialsError"
              /\ disk' = TemporaryDirectoryExit(disk, output_dir, "CredentialsError")
              /\ UNCHANGED <<calls, environment_variables>>
           \/ /\ missing = None
              /\ ~only
              /\ session.resolves
              /\ steps' = steps \o inspect \o <<Step("publish", "_get_envs"),
                                                Step("publish", "subprocess_run")>>
              /\ classification' = "has_assets"
              /\ environment_variables' = got.environment_variables
              /\ \E returncode \in ReturnCodes :
                    /\ calls' = Append(calls,
                          Call(NonPython_publish_command(assets_filepath),
                               got.envs, returncode))
                    /\ error' = NonPython_publish_run(returncode)
                    /\ IF NonPython_publish_run(returncode) # None
                       THEN /\ pc' = "raised"
                            /\ disk' = TemporaryDirectoryExit(disk, output_dir,
                                            NonPython_publish_run(returncode))
                       ELSE /\ pc' = After("publish")
                            /\ disk' = disk
    /\ UNCHANGED <<kind, synthesizer_config, region, session, rotations, builds,
                   stack_logical_id, cdk_context, output_dir, assembly, result>>

NonPython_get_template_step ==
    /\ kind = "NonPython"
    /\ pc = "get_template"
    /\ LET dir == disk[output_dir]
           template_file == TemplateFileName(stack_logical_id)
           unreadable == NonPython_get_template_error(dir, template_file)
       IN  /\ steps' = Append(steps, Step("get_template", "_get_template"))
           /\ error' = unreadable
           /\ IF unreadable # None
              THEN /\ pc' = "raised"
                   /\ result' = None
                   /\ disk' = TemporaryDirectoryExit(disk, output_dir, unreadable)
              ELSE /\ pc' = After("get_template")
                   /\ result' = NonPython_get_template(dir, template_file)
                   /\ disk' = TemporaryDirectoryExit(disk, output_dir, None)
    /\ UNCHANGED <<kind, synthesizer_config, environment_variables, region, session,
                   rotations, builds, stack_logical_id, cdk_context, output_dir,
                   assembly, classification, calls>>

Next ==
    \/ RotateCredentials
    \/ Bootstrapped_build_template
    \/ Bootstrapped_synthesize
    \/ Bootstrapless_synthesize
    \/ Bootstrapped_publish
    \/ Bootstrapped_get_template_step
    \/ NonPython_build_template
    \/ NonPython_synthesize
    \/ NonPython_publish
    \/ NonPython_get_template_step

Spec == Init /\ [][Next]_vars

(***************************************************************************)
(* Vocabulary of the properties.                                           *)
(***************************************************************************)
Terminal == {"returned", "raised"}

Range(seq) == { seq[i] : i \in 1..Len(seq) }

RegionVariables == {"AWS_DEFAULT_REGION", "CDK_DEFAULT_REGION", "AWS_REGION"}

KeyVariables == {"AWS_ACCESS_KEY_ID", "AWS_SECRET_ACCESS_KEY"}

\* e is the environment derived from the ambient mapping, the credentials
\* and the region: stated variable by variable
EnvIsDerived(e, ambient, credentials, reg) ==
    /\ DOMAIN e =
          (((DOMAIN ambient) \ {"AWS_PROFILE", "AWS_SESSION_TOKEN"})
              \cup KeyVariables \cup RegionVariables)
          \cup (IF credentials.token = None THEN {} ELSE {"AWS_SESSION_TOKEN"})
    /\ \A k \in DOMAIN e :
          e[k] = CASE k = "AWS_ACCESS_KEY_ID" -> credentials.access_key
                   [] k = "AWS_SECRET_ACCESS_KEY" -> credentials.secret_key
                   [] k \in RegionVariables -> reg
                   [] k = "AWS_SESSION_TOKEN" -> credentials.token
                   [] OTHER -> ambient[k]

\* the path of the asset manifest of the running call
ManifestPath ==
    IF kind \in InProcess
    THEN "cdk.out/" \o STACK_LOGICAL_ID \o ".assets.json"
    ELSE output_dir \o "/" \o stack_logical_id \o ".assets.json"

PublishCommand == "npx cdk-assets -v publish --path " \o ManifestPath

PublishCalls == { i \in 1..Len(calls) : calls[i].command = PublishCommand }

\* the synthesis of the running call left no asset manifest
ManifestMissing ==
    IF kind \in InProcess
    THEN \A i \in 1..Len(assembly.artifacts) :
            assembly.artifacts[i].type # "AssetManifestArtifact"
    ELSE (stack_logical_id \o ".assets.json") \notin DOMAIN disk[output_dir]

\* no image asset, and the file keys are exactly the expected template
TemplateOnly(files, images, id) ==
    /\ Len(images) = 0
    /\ Range(files) = {id \o ".template.json"}

PhaseRank(phase) ==
    CASE phase = "synthesize" -> 1
      [] phase = "publish" -> 2
      [] phase = "get_template" -> 3

PublishOps ==
    <<"_get_assets_manifest", "_only_asset_is_template", "_get_envs", "subprocess_run">>

StepIndex(st) == CHOOSE i \in 1..Len(steps) : steps[i] = st

(***************************************************************************)
(* C1: _only_asset_is_template answers true exactly when the manifest has  *)
(* no container-image asset and its file keys are exactly                  *)
(* {"<id>.template.json"}, in both builders and for every identifier; so   *)
(* it is false for no file asset, for an extra or differently named key    *)
(* and for any image asset.                                                *)
(***************************************************************************)
C1_OnlyTemplateExactly ==
    classification # "unclassified" =>
        IF kind \in InProcess
        THEN \A i \in 1..Len(assembly.artifacts) :
                assembly.artifacts[i].type = "AssetManifestArtifact" =>
                    ((classification = "only_template") <=>
                        TemplateOnly(assembly.artifacts[i].contents.files,
                                     assembly.artifacts[i].contents.docker_images,
                                     "CDKStack"))
        ELSE output_dir \in DOMAIN disk =>
                LET m == disk[output_dir][stack_logical_id \o ".assets.json"].doc
                    files == IF "files" \in DOMAIN m THEN m["files"] ELSE <<>>
                    images == IF "dockerImages" \in DOMAIN m THEN m["dockerImages"] ELSE <<>>
                IN  (classification = "only_template") <=>
                        TemplateOnly(files, images, stack_logical_id)

\* a manifest with no file asset and no image asset was classified, as not
\* template-only
C1_Witness ==
    /\ kind = "NonPython"
    /\ stack_logical_id = "MyStack"
    /\ output_dir \in DOMAIN disk
    /\ classification = "has_assets"
    /\ LET m == disk[output_dir]["MyStack.assets.json"].doc
       IN  /\ DOMAIN m = {"files", "dockerImages"}
           /\ m["files"] = <<>>
           /\ m["dockerImages"] = <<>>

(***************************************************************************)
(* C2: when the ambient environment holds AWS_PROFILE and the session has  *)
(* no token, the environment handed to a subprocess holds neither          *)
(* AWS_PROFILE nor AWS_SESSION_TOKEN, and holds the session's access key,  *)
(* secret key and, in all three region variables, the session's region.    *)
(***************************************************************************)
C2_NoTokenEnvironment ==
    \A i \in 1..Len(calls) :
        ("AWS_PROFILE" \in DOMAIN environment_variables
            /\ calls[i].session.credentials.token = None) =>
                /\ "AWS_PROFILE" \notin DOMAIN calls[i].env
                /\ "AWS_SESSION_TOKEN" \notin DOMAIN calls[i].env
                /\ KeyVariables \cup RegionVariables \subseteq DOMAIN calls[i].env
                /\ calls[i].env["AWS_ACCESS_KEY_ID"] = calls[i].session.credentials.access_key
                /\ calls[i].env["AWS_SECRET_ACCESS_KEY"] = calls[i].session.credentials.secret_key
                /\ \A v \in RegionVariables : calls[i].env[v] = region

\* a subprocess ran for a token-less session under an ambient environment
\* holding a profile, a token and other values of every overridden variable
C2_Witness ==
    /\ DOMAIN environment_variables = DOMAIN AmbientValues
    /\ \E i \in 1..Len(calls) :
          /\ calls[i].session.credentials.token = None
          /\ calls[i].env["AWS_REGION"] # environment_variables["AWS_REGION"]

(***************************************************************************)
(* C3: when the session has a token, AWS_SESSION_TOKEN of the environment  *)
(* handed to a subprocess is that token, whatever the ambient environment  *)
(* held.                                                                   *)
(***************************************************************************)
C3_TokenEnvironment ==
    \A i \in 1..Len(calls) :
        calls[i].session.credentials.token # None =>
            /\ "AWS_SESSION_TOKEN" \in DOMAIN calls[i].env
            /\ calls[i].env["AWS_SESSION_TOKEN"] = calls[i].session.credentials.token

\* a subprocess ran for a session with a token while the ambient
\* environment held another token
C3_Witness ==
    /\ "AWS_SESSION_TOKEN" \in DOMAIN environment_variables
    /\ \E i \in 1..Len(calls) :
          /\ calls[i].session.credentials.token # None
          /\ calls[i].env["AWS_SESSION_TOKEN"] # environment_variables["AWS_SESSION_TOKEN"]

C5_StrictOrder ==
    /\ \A i, j \in 1..Len(steps) :
          i < j => /\ PhaseRank(steps[i].phase) <= PhaseRank(steps[j].phase)
                   /\ steps[i] # steps[j]
    /\ LET published == SelectSeq(steps, LAMBDA st : st.phase = "publish")
       IN  /\ Len(published) <= Len(PublishOps)
           /\ \A i \in 1..Len(published) : published[i].op = PublishOps[i]
    /\ (\E i \in 1..Len(steps) : steps[i].phase = "publish") =>
          IF kind \in InProcess
          THEN /\ Step("synthesize", "app.synth") \in Range(steps)
               /\ assembly # NoAssembly
          ELSE /\ Step("synthesize", "subprocess_run") \in Range(steps)
               /\ calls[1].returncode = 0
    /\ Step("get_template", "_get_template") \in Range(steps) =>
          /\ Step("publish", "_only_asset_is_template") \in Range(steps)
          /\ \/ classification = "only_template"
             \/ /\ classification = "has_assets"
                /\ Step("publish", "subprocess_run") \in Range(steps)
                /\ calls[Len(calls)].returncode = 0
    /\ pc = "returned" => steps[Len(steps)] = Step("get_template", "_get_template")

\* a build that ran all of synthesis, inspection, publish and extraction
C5_Witness ==
    /\ pc = "returned"
    /\ Step("publish", "subprocess_run") \in Range(steps)
    /\ Step("get_template", "_get_template") \in Range(steps)

(***************************************************************************)
(* C6: when a build_template call of the out-of-process builder has        *)
(* returned or raised, on whichever exit path, its temporary output        *)
(* directory no longer exists.                                             *)
(***************************************************************************)
C6_TemporaryDirectoryRemoved ==
    (kind = "NonPython" /\ pc \in Terminal) =>
        /\ output_dir # None
        /\ output_dir \notin DOMAIN disk
        /\ DOMAIN disk = {}
        /\ error \in {None, "CredentialsError", "CalledProcessError", "SceptreException",
                      "FileNotFoundError", "JSONDecodeError"}

\* the second build of a builder ended by a failed publish command, its
\* directory removed
C6_Witness ==
    /\ kind = "NonPython"
    /\ builds = 2
    /\ pc = "raised"
    /\ error = "CalledProcessError"
    /\ Len(calls) = 2
    /\ output_dir \notin DOMAIN disk

(***************************************************************************)
(* C7: a synthesis or publish subprocess that exits non-zero ends the      *)
(* build with CalledProcessError: no template is returned, the failed      *)
(* command is the last step of the build and it is run once.               *)
(***************************************************************************)
C7_SubprocessFailureIsFatal ==
    \A i \in 1..Len(calls) :
        calls[i].returncode # 0 =>
            /\ i = Len(calls)
            /\ pc = "raised"
            /\ error = "CalledProcessError"
            /\ result = None
            /\ steps[Len(steps)] =
                  Step(IF kind = "NonPython" /\ i = 1 THEN "synthesize" ELSE "publish",
                       "subprocess_run")
            /\ \A j \in 1..Len(calls) : calls[j].command = calls[i].command => j = i

\* the synthesis subprocess exited with code 1
C7_Witness ==
    /\ kind = "NonPython"
    /\ Len(calls) = 1
    /\ calls[1].returncode = 1
    /\ pc = "raised"

(***************************************************************************)
(* C8: in the Bootstrapless builder, when constructing the synthesizer     *)
(* from the configuration fails, build_template raises the                 *)
(* invalid-arguments error before the stack is instantiated or synthesized *)
(* and before any subprocess; no template is returned.                     *)
(***************************************************************************)
C8_AnyConstructionFailureIsInvalidArguments ==
    (kind = "Bootstrapless" /\ synthesizer_config # "valid" /\ pc \notin {"idle", "synthesize"}) =>
        /\ pc = "raised"
        /\ error = "TemplateHandlerArgumentsInvalidError"
        /\ Step("synthesize", "stack_class") \notin Range(steps)
        /\ Step("synthesize", "app.synth") \notin Range(steps)
        /\ calls = <<>>
        /\ result = None

\* C8 as amended: the invalid-arguments error is raised when the constructor
\* raises TypeError; any other exception of the constructor leaves
\* build_template unchanged; in both cases the build ends before the stack
\* is instantiated or synthesized and before any subprocess, with no template.
C8_TypeErrorIsInvalidArguments ==
    (kind = "Bootstrapless" /\ synthesizer_config # "valid" /\ pc \notin {"idle", "synthesize"}) =>
        /\ pc = "raised"
        /\ synthesizer_config = "TypeError" => error = "TemplateHandlerArgumentsInvalidError"
        /\ synthesizer_config # "TypeError" => error = synthesizer_config
        /\ steps[Len(steps)] = Step("synthesize", "synthesizer_class")
        /\ Step("synthesize", "stack_class") \notin Range(steps)
        /\ Step("synthesize", "app.synth") \notin Range(steps)
        /\ calls = <<>>
        /\ result = None

\* a build failed on a configuration the constructor rejected with TypeError
C8_Witness ==
    /\ kind = "Bootstrapless"
    /\ synthesizer_config = "TypeError"
    /\ pc = "raised"
    /\ error = "TemplateHandlerArgumentsInvalidError"

(***************************************************************************)
(* C9: when the synthesis left no asset manifest, the publish step ends    *)
(* the build with the manifest-not-found error right after looking for it: *)
(* no credentials are resolved, no command is run, no template is          *)
(* extracted or returned.                                                  *)
(***************************************************************************)
C9_MissingManifestIsFatal ==
    [][(pc = "publish" /\ pc' # "publish" /\ ManifestMissing) =>
          /\ pc' = "raised"
          /\ error' = "SceptreException"
          /\ steps' = Append(steps, Step("publish", "_get_assets_manifest"))
          /\ calls' = calls
          /\ classification' = "unclassified"
          /\ result' = None]_vars

\* an assembly with its template and no manifest: the build failed
C9_Witness ==
    /\ kind \in InProcess
    /\ pc = "raised"
    /\ error = "SceptreException"
    /\ assembly.template = "{Resources of CDKStack}"
    /\ ManifestMissing

(***************************************************************************)
(* C10: every subprocess gets an environment derived, at that invocation,  *)
(* from the ambient mapping and the session's credentials of that moment   *)
(* (never one derived earlier), and deriving it leaves the builder's       *)
(* ambient mapping as it was.                                              *)
(***************************************************************************)
C10_EnvironmentNeverCached ==
    [][/\ Len(calls') > Len(calls) =>
             EnvIsDerived(calls'[Len(calls')].env, environment_variables,
                          session.credentials, region)
       /\ environment_variables' = environment_variables]_vars

\* the credentials changed between the synthesis and the publish of one
\* build, and each command ran with those of its moment
C10_Witness ==
    /\ Len(calls) = 2
    /\ calls[1].session # calls[2].session
    /\ calls[1].env["AWS_ACCESS_KEY_ID"] = calls[1].session.credentials.access_key
    /\ calls[2].env["AWS_ACCESS_KEY_ID"] = calls[2].session.credentials.access_key
    /\ calls[1].env["AWS_ACCESS_KEY_ID"] # calls[2].env["AWS_ACCESS_KEY_ID"]

====
